---- MODULE Spec2Model ----
(***************************************************************************)
(* A model of dataviews/interface.py: the DFrameView wrapper around a      *)
(* Pandas DataFrame (select, indexing, dframe, dfstack, the table and      *)
(* heatmap exports) and the DFramePlot adapter (render and update_frame).  *)
(*                                                                         *)
(* A frame is [cols, rows]: cols is the sequence of column labels and rows *)
(* the sequence of rows in frame order, each row [id, val] with id the     *)
(* row's index label and val the function from column label to the cell.   *)
(* A frame object is a reference [id, fr]: two references with the same id *)
(* are the same Python object.  A wrapper is [wid, data] likewise.         *)
(***************************************************************************)
EXTENDS Integers, Sequences, FiniteSets, TLC

VARIABLES w, args, pc, res, ret, plot

vars == <<w, args, pc, res, ret, plot>>

(***************************************************************************)
(* Bounds of the model.                                                    *)
(***************************************************************************)
MaxRows == 2

KeyVals == {0, 1}
ValVals == {1, 2}

(***************************************************************************)
(* The wrapped frame.                                                      *)
(***************************************************************************)
dimension_labels == <<"a", "b", "s", "v">>

Range(q) == {q[i] : i \in 1..Len(q)}

ndims == Len(dimension_labels)

RowVals == [Range(dimension_labels) -> KeyVals \cup ValVals]

ColDomain(c) == IF c = "v" THEN ValVals ELSE KeyVals

RowData == {f \in RowVals : \A c \in DOMAIN f : f[c] \in ColDomain(c)}

\* DataFrame(...) with the default RangeIndex: row i carries index label i-1.
Frames ==
    UNION {{[cols |-> dimension_labels,
             rows |-> [i \in 1..n |-> [id |-> i - 1, val |-> d[i]]]] :
              d \in [1..n -> RowData]} : n \in 0..MaxRows}

\* Object identities: the wrapper under study and its frame, and the objects
\* a call creates.
SelfWid == "self"
SelfFid == "self.data"
NewWid == "new view"
NewFid == "new frame"

\* DFrameView.__init__: the wrapper holds the frame it was given.
DFrameView(fr) == [wid |-> SelfWid, data |-> [id |-> SelfFid, fr |-> fr]]

\* View.clone(data): a new wrapper object around the frame object handed in.
clone(self, dataref) == [wid |-> NewWid, data |-> dataref]

(***************************************************************************)
(* select                                                                  *)
(***************************************************************************)
Scalar(x) == [kind |-> "scalar", v |-> x, start |-> 0, stop |-> 0]
Slice(lo, hi) == [kind |-> "slice", v |-> 0, start |-> lo, stop |-> hi]

\* One criterion's row mask.
RowMatchesOpen(r, dim, k) ==
    IF k.kind = "slice"
    THEN k.start <= r.val[dim] /\ r.val[dim] <= k.stop
    ELSE r.val[dim] = k.v

RowMatches(r, dim, k) ==
    IF k.kind = "slice"
    THEN k.start < r.val[dim] /\ r.val[dim] < k.stop
    ELSE r.val[dim] = k.v

\* df[mask]: a new frame object holding the rows the mask keeps, in order.
BoolIndex(dfref, dim, k) ==
    [id |-> NewFid,
     fr |-> [dfref.fr EXCEPT
               !.rows = SelectSeq(dfref.fr.rows, LAMBDA r : RowMatches(r, dim, k))]]

RECURSIVE select_loop(_, _)
select_loop(dfref, items) ==
    IF items = <<>> THEN dfref
    ELSE select_loop(BoolIndex(dfref, Head(items)[1], Head(items)[2]), Tail(items))

\* select(**select): items is select.items() in the dict's iteration order.
select(self, items) == clone(self, select_loop(self.data, items))

(***************************************************************************)
(* __getitem__                                                             *)
(***************************************************************************)
\* dict(zip(self.dimension_labels, key)).items()
ZipDims(key) == [i \in 1..Len(key) |-> <<dimension_labels[i], key[i]>>]

\* __getitem__ without the arity check.
getitem_nocheck(self, key) ==
    IF key = <<>> THEN [status |-> "ok", value |-> self]
    ELSE [status |-> "ok",
          value |-> select(self, ZipDims(SubSeq(key, 1, IF Len(key) < ndims THEN Len(key) ELSE ndims)))]

__getitem__(self, key) ==
    IF key = <<>> THEN [status |-> "ok", value |-> self]
    ELSE IF Len(key) = ndims
         THEN [status |-> "ok", value |-> select(self, ZipDims(key))]
         ELSE [status |-> "KeyError"]

(***************************************************************************)
(* dframe, DataFrame.filter, DataFrame.groupby, dfstack                    *)
(***************************************************************************)
\* dframe handing out the internal frame object itself.
dframe_alias(self) == self.data

\* dframe(): self.data.copy(), a new frame object with the same contents.
dframe(self) == [id |-> NewFid, fr |-> self.data.fr]

\* DataFrame.filter(items): the columns of items, in that order, as a new frame.
Filter(fr, items) ==
    [cols |-> items,
     rows |-> [i \in 1..Len(fr.rows) |->
                 [id |-> fr.rows[i].id,
                  val |-> [c \in Range(items) |-> fr.rows[i].val[c]]]]]

\* The group key of a row: its values of the grouping columns.
GroupKey(r, dims) == [j \in 1..Len(dims) |-> r.val[dims[j]]]

RECURSIVE LexLess(_, _)
LexLess(x, y) ==
    IF x = <<>> \/ y = <<>> THEN FALSE
    ELSE Head(x) < Head(y) \/ (Head(x) = Head(y) /\ LexLess(Tail(x), Tail(y)))

RECURSIVE SortKeys(_)
SortKeys(S) ==
    IF S = {} THEN <<>>
    ELSE LET m == CHOOSE x \in S : \A y \in S \ {x} : LexLess(x, y)
         IN <<m>> \o SortKeys(S \ {m})

\* groupby(dims), iterated: one (key, sub-frame) per distinct key, keys ascending,
\* each sub-frame holding the group's rows in frame order with all columns.
groupby(fr, dims) ==
    LET keys == SortKeys({GroupKey(fr.rows[i], dims) : i \in 1..Len(fr.rows)})
    IN [g \in 1..Len(keys) |->
          [key |-> [none |-> FALSE, k |-> keys[g]],
           fr |-> [fr EXCEPT
                     !.rows = SelectSeq(fr.rows, LAMBDA r : GroupKey(r, dims) = keys[g])]]]

\* set(self.dimension_labels) - set(dimensions): a set, without an order.
Remaining(dims) == Range(dimension_labels) \ Range(dims)

\* The orders in which iterating a set can yield its elements.
IterOrders(S) ==
    {q \in [1..Cardinality(S) -> S] : \A i, j \in 1..Cardinality(S) : i # j => q[i] # q[j]}

\* dfstack(dimensions): one wrapper per group over the non-grouping columns.
\* view_dims is the set of line 96 in the order its iteration yields; the
\* same set object is iterated for every group, so one order serves them all.
dfstack(self, dimensions, view_dims) ==
    IF dimensions = <<>> THEN [status |-> "ValueError", keys |-> <<>>, views |-> <<>>]
    ELSE LET gs == groupby(self.data.fr, dimensions)
         IN [status |-> "ok",
             keys |-> [g \in 1..Len(gs) |-> gs[g].key],
             views |-> [g \in 1..Len(gs) |->
                          clone(self, [id |-> NewFid,
                                       fr |-> Filter(gs[g].fr, view_dims)])]]

(***************************************************************************)
(* apply                                                                   *)
(***************************************************************************)
\* In-place edits of a frame object.
Mutation(fr, how) ==
    IF how = "clear" THEN [fr EXCEPT !.rows = <<>>]
    ELSE IF how = "zero"
    THEN [fr EXCEPT !.rows = [i \in 1..Len(fr.rows) |->
                                [fr.rows[i] EXCEPT !.val = [c \in DOMAIN fr.rows[i].val |->
                                    IF c = "v" THEN 0 ELSE fr.rows[i].val[c]]]]]
    ELSE Filter(fr, SelectSeq(fr.cols, LAMBDA c : c # "b"))

\* The DataFrame methods a caller names: head(1) returns a new frame;
\* __setitem__('v', 0) and drop(index, inplace=True) edit the frame in place
\* and return None.
ApplyNames == {"head", "__setitem__", "drop"}

\* apply(name, *args): the method runs on self.data, then its result is
\* cloned; clone(None) fails in __init__ (not a DataFrame).  self is the
\* wrapper after the call, r the outcome.
apply(self, name) ==
    IF name = "head"
    THEN [self |-> self,
          r |-> [status |-> "ok",
                 value |-> clone(self, [id |-> NewFid,
                                        fr |-> [self.data.fr EXCEPT
                                                  !.rows = SubSeq(self.data.fr.rows, 1,
                                                                  IF Len(self.data.fr.rows) < 1
                                                                  THEN Len(self.data.fr.rows)
                                                                  ELSE 1)]])]]
    ELSE [self |-> [self EXCEPT !.data.fr =
                      Mutation(self.data.fr, IF name = "drop" THEN "clear" ELSE "zero")],
          r |-> [status |-> "Exception"]]

(***************************************************************************)
(* _export_dataview                                                        *)
(***************************************************************************)
\* Keys of the exported mapping: a tuple, a bare value unwrapped from a
\* one-element tuple, or (reduction without view dimensions) a column name.
Tup(q) == [kind |-> "tuple", tup |-> q, name |-> ""]
Bare(x) == [kind |-> "bare", tup |-> <<x>>, name |-> ""]
Name(n) == [kind |-> "name", tup |-> <<>>, name |-> n]

\* list(stack_group.index)
IndexOf(fr) == [i \in 1..Len(fr.rows) |-> fr.rows[i].id]

HasRow(fr, ind) == \E i \in 1..Len(fr.rows) : fr.rows[i].id = ind

\* stack_group.loc[ind, d] for an index label the group holds.
Loc(fr, ind, d) ==
    LET i == CHOOSE j \in 1..Len(fr.rows) : fr.rows[j].id = ind
    IN fr.rows[i].val[d]

\* cols.index(d)
ColIndex(cols, d) == CHOOSE j \in 1..Len(cols) : cols[j] = d

\* One row of stack_group.values: the row's cells in column order.
RowSeq(r, cols) == [j \in 1..Len(cols) |-> r.val[cols[j]]]

\* The reduction functions a caller passes.
RECURSIVE SumSeq(_)
SumSeq(q) == IF q = <<>> THEN 0 ELSE Head(q) + SumSeq(Tail(q))

ApplyReduce(reduce_fn, q) ==
    IF reduce_fn = "sum" THEN SumSeq(q)
    ELSE IF reduce_fn = "first" THEN q[1]
    ELSE q[Len(q)]

\* temp_dict[key] = value on a mapping.
Put(d, k, x) == [kk \in DOMAIN d \cup {k} |-> IF kk = k THEN x ELSE d[kk]]

EmptyDict == [kk \in {} |-> 0]

\* Lines 153-159 collating each value at the front of its key's list.
RECURSIVE collate_prepend(_, _, _, _, _, _)
collate_prepend(rows, cols, value_dim, view_dims, i, temp_dict) ==
    IF i > Len(rows) THEN temp_dict
    ELSE LET row == RowSeq(rows[i], cols)
             key == IF view_dims # <<>>
                    THEN Tup([j \in 1..Len(view_dims) |-> row[ColIndex(cols, view_dims[j])]])
                    ELSE Name(value_dim)
             old == IF key \in DOMAIN temp_dict THEN temp_dict[key] ELSE <<>>
         IN collate_prepend(rows, cols, value_dim, view_dims, i + 1,
                            Put(temp_dict, key, <<row[ColIndex(cols, value_dim)]>> \o old))

\* Lines 153-159: iterate over the rows and collate the values per key.
RECURSIVE collate(_, _, _, _, _, _)
collate(rows, cols, value_dim, view_dims, i, temp_dict) ==
    IF i > Len(rows) THEN temp_dict
    ELSE LET row == RowSeq(rows[i], cols)
             key == IF view_dims # <<>>
                    THEN Tup([j \in 1..Len(view_dims) |-> row[ColIndex(cols, view_dims[j])]])
                    ELSE Name(value_dim)
             old == IF key \in DOMAIN temp_dict THEN temp_dict[key] ELSE <<>>
         IN collate(rows, cols, value_dim, view_dims, i + 1,
                    Put(temp_dict, key, Append(old, row[ColIndex(cols, value_dim)])))

\* Lines 146-160: the reduction branch for one group.
reduce_group(fr, value_dim, reduce_fn, view_dims) ==
    LET lists == collate(fr.rows, fr.cols, value_dim, view_dims, 1, EmptyDict)
    IN [k \in DOMAIN lists |-> ApplyReduce(reduce_fn, lists[k])]

\* Lines 171-175 dropping the row identifier from the key.
index_key_noprefix(fr, ind, view_dims, n_indices) ==
    LET key == [j \in 1..Len(view_dims) |-> Loc(fr, ind, view_dims[j])]
    IN key

\* Lines 171-173: the key of one selected row before unwrapping.
index_key(fr, ind, view_dims, n_indices) ==
    LET key == [j \in 1..Len(view_dims) |-> Loc(fr, ind, view_dims[j])]
    IN IF n_indices # 1 THEN <<ind>> \o key ELSE key

\* Lines 170-175: the loop over indices; a failed lookup ends it.
RECURSIVE index_loop(_, _, _, _, _, _)
index_loop(fr, indices, value_dim, view_dims, j, temp_dict) ==
    IF j > Len(indices) THEN [status |-> "ok", temp_dict |-> temp_dict]
    ELSE LET ind == indices[j] IN
         IF view_dims # <<>> /\ ~HasRow(fr, ind)
         THEN [status |-> "KeyError", temp_dict |-> temp_dict]
         ELSE LET key == index_key(fr, ind, view_dims, Len(indices)) IN
              IF Len(key) = 0
              THEN [status |-> "IndexError", temp_dict |-> temp_dict]
              ELSE IF ~HasRow(fr, ind)
              THEN [status |-> "KeyError", temp_dict |-> temp_dict]
              ELSE index_loop(fr, indices, value_dim, view_dims, j + 1,
                              Put(temp_dict,
                                  IF Len(key) > 1 THEN Tup(key) ELSE Bare(key[1]),
                                  Loc(fr, ind, value_dim)))

\* Lines 162-175: the index branch for one group, with the values it leaves in
\* the function's locals indices and view_dimensions.
index_group(fr, value_dim, indices, view_dims, view_dimensions) ==
    LET indices1 == IF Len(indices) # 1
                    THEN (IF indices # <<>> THEN indices ELSE IndexOf(fr))
                    ELSE indices
        vd1 == IF Len(indices) # 1 THEN <<"Index">> \o view_dims ELSE view_dimensions
        r == index_loop(fr, indices1, value_dim, view_dims, 1, EmptyDict)
    IN [status |-> r.status, temp_dict |-> r.temp_dict,
        indices |-> indices1, view_dimensions |-> vd1]

\* _create_table: a Table of temp_dict; value and dimensions only with dims.
_create_table(temp_dict, value_dim, dims) ==
    [type |-> "Table", data |-> temp_dict, with_dims |-> dims # <<>>,
     dimensions |-> dims, value |-> IF dims # <<>> THEN value_dim ELSE ""]

\* _create_heatmap: a HeatMap of temp_dict with dims and the value dimension.
_create_heatmap(temp_dict, value_dim, dims) ==
    [type |-> "HeatMap", data |-> temp_dict, with_dims |-> TRUE,
     dimensions |-> dims, value |-> value_dim]

view_call(view_method, temp_dict, value_dim, dims) ==
    IF view_method = "_create_table" THEN _create_table(temp_dict, value_dim, dims)
    ELSE _create_heatmap(temp_dict, value_dim, dims)

\* Lines 144-176: the loop over the stack groups.  indices and view_dimensions
\* are the function's locals, carried from one iteration to the next; keys and
\* views are the entries stored in stack so far.
RECURSIVE export_loop(_, _, _, _, _, _, _, _, _, _)
export_loop(groups, g, value_dim, indices, reduce_fn, view_dims, view_dimensions, view_method, keys, views) ==
    IF g > Len(groups) THEN [status |-> "ok", keys |-> keys, views |-> views]
    ELSE IF reduce_fn # "None"
    THEN export_loop(groups, g + 1, value_dim, indices, reduce_fn, view_dims,
                     view_dimensions, view_method,
                     Append(keys, groups[g].key),
                     Append(views, view_call(view_method,
                                             reduce_group(groups[g].fr, value_dim,
                                                          reduce_fn, view_dims),
                                             value_dim, view_dimensions)))
    ELSE LET r == index_group(groups[g].fr, value_dim, indices, view_dims,
                              view_dimensions) IN
         IF r.status # "ok" THEN [status |-> r.status, keys |-> keys, views |-> views]
         ELSE export_loop(groups, g + 1, value_dim, r.indices, reduce_fn, view_dims,
                          r.view_dimensions, view_method,
                          Append(keys, groups[g].key),
                          Append(views, view_call(view_method, r.temp_dict,
                                                  value_dim, r.view_dimensions)))

NoneKey == [none |-> TRUE, k |-> <<>>]

\* _export_dataview: status is "ok" or the exception raised; views are the
\* views built (all of them on success, those built before the failure
\* otherwise), keys their stack keys; stacked tells a stack from a single view.
_export_dataview(self, value_dim, indices, reduce_fn, view_dims, stack_dims, view_method) ==
    LET selected_dims == <<value_dim>> \o view_dims \o stack_dims IN
    IF \E i \in 1..Len(selected_dims) : selected_dims[i] \notin Range(dimension_labels)
    THEN [status |-> "Exception", stacked |-> stack_dims # <<>>, keys |-> <<>>, views |-> <<>>]
    ELSE LET filter_dims == Range(dimension_labels) \ Range(selected_dims)
             df == IF filter_dims # {} THEN Filter(self.data.fr, selected_dims)
                   ELSE dframe(self).fr
             stack_dfs == IF stack_dims # <<>> THEN groupby(df, stack_dims)
                          ELSE <<[key |-> NoneKey, fr |-> df]>>
             r == export_loop(stack_dfs, 1, value_dim, indices, reduce_fn, view_dims,
                              view_dims, view_method, <<>>, <<>>)
         IN [status |-> r.status, stacked |-> stack_dims # <<>>,
             keys |-> r.keys, views |-> r.views]

\* table(value_dim, indices, reduce_fn, dims, stack_dims)
table(self, value_dim, indices, reduce_fn, dims, stack_dims) ==
    _export_dataview(self, value_dim, indices, reduce_fn, dims, stack_dims, "_create_table")

\* heatmap(value_dim, dims, index, reduce_fn, stack_dims): index is <<>> for
\* None and <<i>> for the label i; [index] if index else [] drops None and 0.
\* The guard 1 > len(dims) > 2 is the chained comparison 1 > n and n > 2.
heatmap(self, value_dim, dims, index, reduce_fn, stack_dims) ==
    IF 1 > Len(dims) /\ Len(dims) > 2
    THEN [status |-> "Exception", stacked |-> stack_dims # <<>>, keys |-> <<>>, views |-> <<>>]
    ELSE _export_dataview(self, value_dim,
                          IF index # <<>> /\ index[1] # 0 THEN index ELSE <<>>,
                          reduce_fn, dims, stack_dims, "_create_heatmap")

(***************************************************************************)
(* Calls on the wrapper.  args is the pending call, res the outcome of the *)
(* last call, ret the frame object the last dframe() handed to the caller  *)
(* (<<>> before any).                                                      *)
(***************************************************************************)
NoArgs ==
    [op |-> "none", items |-> <<>>, key |-> <<>>, value_dim |-> "", indices |-> <<>>,
     index |-> <<>>, reduce_fn |-> "None", dims |-> <<>>, stack_dims |-> <<>>]

NoRes == [op |-> "none", r |-> [status |-> "none"]]

SelectArgs(items) == [NoArgs EXCEPT !.op = "select", !.items = items]
GetitemArgs(key) == [NoArgs EXCEPT !.op = "getitem", !.key = key]
DframeArgs == [NoArgs EXCEPT !.op = "dframe"]
DfstackArgs(dims) == [NoArgs EXCEPT !.op = "dfstack", !.dims = dims]
ApplyArgs(name) == [NoArgs EXCEPT !.op = "apply", !.value_dim = name]
TableArgs(value_dim, indices, reduce_fn, dims, stack_dims) ==
    [NoArgs EXCEPT !.op = "table", !.value_dim = value_dim, !.indices = indices,
                   !.reduce_fn = reduce_fn, !.dims = dims, !.stack_dims = stack_dims]
HeatmapArgs(value_dim, dims, index, reduce_fn, stack_dims) ==
    [NoArgs EXCEPT !.op = "heatmap", !.value_dim = value_dim, !.index = index,
                   !.reduce_fn = reduce_fn, !.dims = dims, !.stack_dims = stack_dims]

Select ==
    /\ pc = "call" /\ args.op = "select"
    /\ res' = [op |-> "select", r |-> [status |-> "ok", value |-> select(w, args.items)]]
    /\ pc' = "done"
    /\ UNCHANGED <<w, args, ret, plot>>

GetItem ==
    /\ pc = "call" /\ args.op = "getitem"
    /\ res' = [op |-> "getitem", r |-> __getitem__(w, args.key)]
    /\ pc' = "done"
    /\ UNCHANGED <<w, args, ret, plot>>

Dframe ==
    /\ pc = "call" /\ args.op = "dframe"
    /\ ret' = <<dframe(w)>>
    /\ res' = [op |-> "dframe", r |-> [status |-> "ok"]]
    /\ pc' = "done"
    /\ UNCHANGED <<w, args, plot>>

DfStack ==
    /\ pc = "call" /\ args.op = "dfstack"
    /\ \E view_dims \in IterOrders(Remaining(args.dims)) :
         res' = [op |-> "dfstack", r |-> dfstack(w, args.dims, view_dims)]
    /\ pc' = "done"
    /\ UNCHANGED <<w, args, ret, plot>>

TableCall ==
    /\ pc = "call" /\ args.op = "table"
    /\ res' = [op |-> "table",
               r |-> table(w, args.value_dim, args.indices, args.reduce_fn,
                           args.dims, args.stack_dims)]
    /\ pc' = "done"
    /\ UNCHANGED <<w, args, ret, plot>>

HeatmapCall ==
    /\ pc = "call" /\ args.op = "heatmap"
    /\ res' = [op |-> "heatmap",
               r |-> heatmap(w, args.value_dim, args.dims, args.index, args.reduce_fn,
                             args.stack_dims)]
    /\ pc' = "done"
    /\ UNCHANGED <<w, args, ret, plot>>

Apply ==
    /\ pc = "call" /\ args.op = "apply"
    /\ w' = apply(w, args.value_dim).self
    /\ res' = [op |-> "apply", r |-> apply(w, args.value_dim).r]
    /\ pc' = "done"
    /\ UNCHANGED <<args, ret, plot>>

\* The caller edits the frame dframe() returned; the edit shows through every
\* reference to that frame object.
Mutate ==
    /\ ret # <<>>
    /\ \E how \in {"clear", "zero", "delcol"} :
         LET m == Mutation(ret[1].fr, how) IN
         /\ m # ret[1].fr
         /\ ret' = <<[ret[1] EXCEPT !.fr = m]>>
         /\ w' = IF w.data.id = ret[1].id THEN [w EXCEPT !.data.fr = m] ELSE w
    /\ UNCHANGED <<args, pc, res, plot>>

(***************************************************************************)
(* The inputs the specifications draw from.                                *)
(***************************************************************************)
Wrappers == {DFrameView(fr) : fr \in Frames}

SelectDims == {"a", "v"}

Crits == {Scalar(x) : x \in KeyVals \cup ValVals} \cup {Slice(0, 2), Slice(1, 3), Slice(0, 3)}

SelectItems ==
    {<<>>}
    \cup {<<<<d, k>>>> : d \in SelectDims, k \in Crits}
    \cup {<<<<d1, k1>>, <<d2, k2>>>> :
            <<d1, k1, d2, k2>> \in {q \in SelectDims \X Crits \X SelectDims \X Crits :
                                       q[1] # q[3]}}

KeyElems == {Scalar(x) : x \in KeyVals}

Keys == UNION {[1..n -> KeyElems] : n \in 0..(ndims + 1)}

\* Index labels a caller may name: those of the largest frame and one beyond.
IdxIds == 0..MaxRows

IndexLists ==
    {<<>>} \cup {<<i>> : i \in IdxIds} \cup {<<i, j>> : i \in IdxIds, j \in IdxIds}

DimChoices ==
    {<<<<>>, <<>>>>, <<<<"a">>, <<>>>>, <<<<"a", "b">>, <<>>>>, <<<<"a", "b", "s">>, <<>>>>,
     <<<<>>, <<"s">>>>, <<<<"a">>, <<"s">>>>, <<<<"a", "b">>, <<"s">>>>}

IndexArgs ==
    {TableArgs("v", ix, "None", dc[1], dc[2]) : ix \in IndexLists, dc \in DimChoices}
    \cup {HeatmapArgs("v", dc[1], ix, "None", dc[2]) :
            ix \in {<<>>} \cup {<<i>> : i \in IdxIds}, dc \in DimChoices}
    \cup {TableArgs("z", <<>>, "None", <<"a">>, <<>>),
          HeatmapArgs("v", <<"z">>, <<>>, "None", <<>>)}

ReduceFns == {"sum", "first", "last"}

ReduceArgs ==
    {TableArgs("v", ix, fn, dc[1], dc[2]) :
        ix \in {<<>>, <<0>>, <<0, 1>>}, fn \in ReduceFns, dc \in DimChoices}
    \cup {HeatmapArgs("v", dc[1], ix, fn, dc[2]) :
            ix \in {<<>>, <<1>>}, fn \in ReduceFns, dc \in DimChoices}

FrameArgs ==
    {SelectArgs(<<>>), SelectArgs(<<<<"a", Scalar(0)>>>>), SelectArgs(<<<<"v", Slice(0, 2)>>>>),
     GetitemArgs(<<>>), GetitemArgs(<<Scalar(0)>>),
     GetitemArgs(<<Scalar(0), Scalar(0), Scalar(0), Scalar(1)>>),
     DframeArgs, DfstackArgs(<<"s">>), DfstackArgs(<<>>),
     TableArgs("v", <<>>, "None", <<"a">>, <<>>), TableArgs("v", <<>>, "sum", <<>>, <<"s">>),
     TableArgs("v", <<0>>, "None", <<>>, <<>>), TableArgs("z", <<>>, "None", <<>>, <<>>),
     HeatmapArgs("v", <<"a", "b">>, <<>>, "None", <<>>),
     HeatmapArgs("v", <<"a">>, <<1>>, "None", <<"s">>),
     HeatmapArgs("v", <<"a", "b", "s">>, <<>>, "first", <<>>)}
    \cup {ApplyArgs(n) : n \in ApplyNames}

NoPlot == [plot_type |-> "none"]

InitWith(A) ==
    /\ w \in Wrappers
    /\ args \in A
    /\ pc = "call"
    /\ res = NoRes
    /\ ret = <<>>
    /\ plot = NoPlot

\* select and indexing, applied to every frame and input of the bounds.
InitSelect == InitWith({SelectArgs(it) : it \in SelectItems} \cup {GetitemArgs(k) : k \in Keys})
NextSelect == Select \/ GetItem
SpecSelect == InitSelect /\ [][NextSelect]_vars

\* Index-based export (no reduce_fn).
InitIndex == InitWith(IndexArgs)
NextExport == TableCall \/ HeatmapCall
SpecIndex == InitIndex /\ [][NextExport]_vars

\* Export with a reduce_fn.
InitReduce == InitWith(ReduceArgs)
SpecReduce == InitReduce /\ [][NextExport]_vars

\* The caller issues the next call on the wrapper.
Call ==
    /\ pc = "done"
    /\ args' \in FrameArgs
    /\ pc' = "call"
    /\ res' = NoRes
    /\ UNCHANGED <<w, ret, plot>>

\* Any sequence of calls on one wrapper, with the caller editing what dframe()
\* returned.
InitFrame == InitWith(FrameArgs)
NextFrame ==
    Call \/ Select \/ GetItem \/ Dframe \/ DfStack \/ TableCall \/ HeatmapCall \/ Mutate
      \/ Apply
SpecFrame == InitFrame /\ [][NextFrame]_vars

(***************************************************************************)
(* DFramePlot.  plot is the adapter: plot_type, the number of frames of    *)
(* its stack, the number of dimensions of the stack's last view, the style *)
(* options registered for the view (in the dict's iteration order), the    *)
(* axis (unset before the first render), self.style, and the outcome of    *)
(* the last call.                                                          *)
(***************************************************************************)
MaxFrames == 3
MaxStyle == 2

PlotTypes == {"plot", "boxplot", "hist", "scatter_matrix"}

plot_options(t) ==
    IF t = "plot"
    THEN {"kind", "stacked", "xerr", "yerr", "share_x", "share_y", "table", "style",
          "secondary_y", "legend", "logx", "logy", "position", "colormap", "mark_right"}
    ELSE IF t = "hist"
    THEN {"column", "by", "grid", "xlabelsize", "xrot", "ylabelsize", "yrot", "sharex",
          "sharey", "hist", "layout"}
    ELSE IF t = "boxplot"
    THEN {"column", "by", "fontsize", "layout", "grid", "rot"}
    ELSE IF t = "scatter_matrix"
    THEN {"alpha", "grid", "diagonal", "marker", "range_padding", "hist_kwds",
          "density_kwds"}
    ELSE {"kwds"}

StyleNames == {"kind", "column", "grid", "alpha", "color"}

StyleSets ==
    UNION {{q \in [1..n -> StyleNames] : \A i, j \in 1..n : i # j => q[i] # q[j]} :
             n \in 0..MaxStyle}

\* len(self): the number of frames of the plot's stack.
PlotLen(p) == p.nframes

\* View.options.style(dfview)[cyclic_index]: a fresh dict of the registered options.
style_lookup(p) == p.registry

Without(q, k) == SelectSeq(q, LAMBDA x : x # k)

\* Lines 289-293: for k in self.style.keys(), popping inside the loop.  keys()
\* is a view of the dict: the iterator's next step raises RuntimeError once
\* the dict's size differs from its size when the loop began.
RECURSIVE style_loop(_, _, _, _, _)
style_loop(style, pos, size0, plot_type, warnings) ==
    IF Len(style) # size0
    THEN [status |-> "RuntimeError", style |-> style, warnings |-> warnings]
    ELSE IF pos > Len(style)
    THEN [status |-> "ok", style |-> style, warnings |-> warnings]
    ELSE IF style[pos] \notin plot_options(plot_type)
    THEN style_loop(Without(style, style[pos]), pos + 1, size0, plot_type, warnings + 1)
    ELSE style_loop(style, pos + 1, size0, plot_type, warnings)

\* __call__(axis): composed tells whether an axis was supplied.
__call__(p, composed) ==
    IF composed /\ p.plot_type = "scatter_matrix"
    THEN [p EXCEPT !.last = [op |-> "__call__", status |-> "Exception", composed |-> composed,
                             warnings |-> 0, passed |-> <<>>, drawn |-> FALSE]]
    ELSE IF composed /\ p.vdims > 1 /\ p.plot_type \in {"hist"}
    THEN [p EXCEPT !.last = [op |-> "__call__", status |-> "Exception", composed |-> composed,
                             warnings |-> 0, passed |-> <<>>, drawn |-> FALSE]]
    ELSE LET st == style_lookup(p)
             r == style_loop(st, 1, Len(st), p.plot_type, 0)
             full == r.style \o <<"figsize">>
                     \o (IF p.plot_type = "boxplot" THEN <<"return_type">> ELSE <<>>)
         IN IF r.status # "ok"
            THEN [p EXCEPT !.ax = "set", !.style = r.style,
                           !.last = [op |-> "__call__", status |-> r.status,
                                     composed |-> composed, warnings |-> r.warnings,
                                     passed |-> <<>>, drawn |-> FALSE]]
            ELSE [p EXCEPT !.ax = "set", !.style = full,
                           !.last = [op |-> "__call__", status |-> "ok",
                                     composed |-> composed, warnings |-> r.warnings,
                                     passed |-> full, drawn |-> TRUE]]

\* update_frame(n): frame is the position in list(self._stack.values()) that
\* the subscript [n] reads (a negative subscript counts from the end), log the
\* calls made on the axis and the plotting routine, in order.
update_frame(p, n) ==
    LET n1 == IF n < PlotLen(p) THEN n ELSE PlotLen(p) - 1
        pos == IF n1 >= 0 THEN n1 ELSE PlotLen(p) + n1
    IN IF pos < 0
       THEN [p EXCEPT !.last = [op |-> "update_frame", status |-> "IndexError", n |-> n,
                                frame |-> pos, log |-> <<>>]]
       ELSE [p EXCEPT !.last = [op |-> "update_frame", status |-> "ok", n |-> n,
                                frame |-> pos,
                                log |-> (IF p.plot_type \notin {"hist", "scatter_matrix"}
                                         THEN <<"cla", "set_title", "_update_title">>
                                         ELSE <<>>)
                                        \o <<"_update_plot", "draw">>]]

Render ==
    /\ \E composed \in BOOLEAN : plot' = __call__(plot, composed)
    /\ UNCHANGED <<w, args, pc, res, ret>>

\* The animation redraws a plot that has been rendered.
UpdateFrame ==
    /\ plot.ax = "set"
    /\ \E n \in (0 - (MaxFrames + 1))..(MaxFrames + 1) : plot' = update_frame(plot, n)
    /\ UNCHANGED <<w, args, pc, res, ret>>

InitPlot ==
    /\ w = DFrameView([cols |-> dimension_labels, rows |-> <<>>])
    /\ args = NoArgs
    /\ pc = "done"
    /\ res = NoRes
    /\ ret = <<>>
    /\ plot \in [plot_type : PlotTypes, nframes : 1..MaxFrames, vdims : {1, ndims},
                 registry : StyleSets, ax : {"unset"}, style : {<<>>},
                 last : {[op |-> "none", status |-> "none"]}]

NextPlot == Render \/ UpdateFrame
SpecPlot == InitPlot /\ [][NextPlot]_vars

(***************************************************************************)
(* Properties.  What a call should produce is stated from the wrapper's    *)
(* frame and the call's arguments.                                         *)
(***************************************************************************)
IsExport == pc = "done" /\ args.op \in {"table", "heatmap"}

\* The explicit indices of the call: table's indices, heatmap's index if given.
Explicit == IF args.op = "table" THEN args.indices
            ELSE IF args.index # <<>> /\ args.index[1] # 0 THEN args.index ELSE <<>>

StackKeyOf(r) == [j \in 1..Len(args.stack_dims) |-> r.val[args.stack_dims[j]]]

ViewValsOf(r) == [j \in 1..Len(args.dims) |-> r.val[args.dims[j]]]

\* The rows of the wrapper's frame that belong to the group of stack key k.
GroupRows(k) ==
    IF k.none THEN w.data.fr.rows
    ELSE SelectSeq(w.data.fr.rows, LAMBDA r : StackKeyOf(r) = k.k)

\* The stack keys the export should produce.
ExpectedStackKeys ==
    IF args.stack_dims = <<>> THEN {NoneKey}
    ELSE {[none |-> FALSE, k |-> StackKeyOf(w.data.fr.rows[i])] :
            i \in 1..Len(w.data.fr.rows)}

RowById(ind) ==
    w.data.fr.rows[CHOOSE i \in 1..Len(w.data.fr.rows) : w.data.fr.rows[i].id = ind]

KeyLen(k) == IF k.kind = "tuple" THEN Len(k.tup) ELSE 1

\* C1: an export with no reduce_fn, no indices and stack_dims completes, with
\* one view per stack group, each holding exactly one entry per row of its own
\* group.
C1_EveryGroupOwnRows ==
    (IsExport /\ args.reduce_fn = "None" /\ args.indices = <<>> /\ args.index = <<>>
       /\ args.stack_dims # <<>> /\ args.value_dim = "v")
    => /\ res.r.status = "ok"
       /\ {res.r.keys[g] : g \in 1..Len(res.r.keys)} = ExpectedStackKeys
       /\ \A g \in 1..Len(res.r.views) :
            Cardinality(DOMAIN res.r.views[g].data) = Len(GroupRows(res.r.keys[g]))

\* C2: heatmap with a dims list of zero, three or more dimensions fails with
\* the validation error and builds no view.
C2_HeatmapArityRejected ==
    (pc = "done" /\ args.op = "heatmap" /\ Len(args.dims) \notin {1, 2})
    => (res.r.status = "Exception" /\ res.r.views = <<>>)

\* The row identifiers selected in the group of the g-th view built.
C3_Selected(g) ==
    IF Explicit # <<>> THEN Range(Explicit)
    ELSE {GroupRows(res.r.keys[g])[i].id : i \in 1..Len(GroupRows(res.r.keys[g]))}

C3_Key(ind) ==
    IF args.dims = <<>> THEN Bare(ind) ELSE Tup(<<ind>> \o ViewValsOf(RowById(ind)))

\* C3: in an export without reduce_fn, every view built from two or more
\* distinct selected row identifiers has one entry per selected row, keyed by
\* the row identifier followed by the row's view-dimension values, whose value
\* is the row's value-column entry.
C3_NoKeyCollision ==
    (IsExport /\ args.reduce_fn = "None")
    => \A g \in 1..Len(res.r.views) :
         Cardinality(C3_Selected(g)) >= 2
         => /\ DOMAIN res.r.views[g].data = {C3_Key(ind) : ind \in C3_Selected(g)}
            /\ Cardinality(DOMAIN res.r.views[g].data) = Cardinality(C3_Selected(g))
            /\ \A ind \in C3_Selected(g) :
                 res.r.views[g].data[C3_Key(ind)] = RowById(ind).val[args.value_dim]

\* C3 witness: a table built from two rows that share their view-dimension
\* values holds two entries.
C3_Witness ==
    /\ IsExport /\ args.op = "table" /\ args.reduce_fn = "None" /\ args.dims = <<"a", "b">>
    /\ res.r.status = "ok" /\ Len(res.r.views) = 1
    /\ Len(w.data.fr.rows) = 2
    /\ ViewValsOf(w.data.fr.rows[1]) = ViewValsOf(w.data.fr.rows[2])
    /\ w.data.fr.rows[1].val["v"] # w.data.fr.rows[2].val["v"]
    /\ Cardinality(DOMAIN res.r.views[1].data) = 2

C4_Key(r) == IF args.dims = <<>> THEN Name(args.value_dim) ELSE Tup(ViewValsOf(r))

\* The value-column entries, in row order, of the rows of group k with key kk.
C4_Values(k, kk) ==
    LET rows == SelectSeq(GroupRows(k), LAMBDA r : C4_Key(r) = kk)
    IN [i \in 1..Len(rows) |-> rows[i].val[args.value_dim]]

C4_PerGroup ==
    /\ res.r.status = "ok"
    /\ Len(res.r.keys) = Cardinality(ExpectedStackKeys)
    /\ {res.r.keys[g] : g \in 1..Len(res.r.keys)} = ExpectedStackKeys
    /\ \A g \in 1..Len(res.r.views) :
         LET rows == GroupRows(res.r.keys[g])
             combos == {C4_Key(rows[i]) : i \in 1..Len(rows)}
         IN /\ DOMAIN res.r.views[g].data = combos
            /\ \A kk \in combos :
                 res.r.views[g].data[kk] =
                   ApplyReduce(args.reduce_fn, C4_Values(res.r.keys[g], kk))
    /\ res.r = _export_dataview(w, args.value_dim, <<>>, args.reduce_fn, args.dims,
                                args.stack_dims,
                                IF args.op = "table" THEN "_create_table"
                                ELSE "_create_heatmap")

\* C4 as stated: an export with a reduce_fn gives, per group, one entry per
\* combination of view-dimension values occurring in the group, valued
\* reduce_fn of the matching value-column entries in row order; with empty
\* view_dims the mapping has the single key value_dim; indices has no effect.
C4_Original ==
    (IsExport /\ args.reduce_fn # "None")
    => /\ C4_PerGroup
       /\ args.dims = <<>> =>
            \A g \in 1..Len(res.r.views) :
              DOMAIN res.r.views[g].data = {Name(args.value_dim)}

\* C4 amended: as C4, except that with empty view_dims the mapping has the
\* single key value_dim when the group has at least one row, and is empty for
\* a frame without rows.
C4_ReducePerCombination ==
    (IsExport /\ args.reduce_fn # "None")
    => /\ C4_PerGroup
       /\ args.dims = <<>> =>
            \A g \in 1..Len(res.r.views) :
              DOMAIN res.r.views[g].data =
                IF GroupRows(res.r.keys[g]) # <<>> THEN {Name(args.value_dim)} ELSE {}

\* C4 witness: two rows with equal view-dimension values are reduced by sum to
\* one entry holding the sum of their values.
C4_Witness ==
    /\ IsExport /\ args.reduce_fn = "sum" /\ args.dims = <<"a">> /\ args.stack_dims = <<>>
    /\ args.indices # <<>>
    /\ Len(w.data.fr.rows) = 2
    /\ w.data.fr.rows[1].val["a"] = w.data.fr.rows[2].val["a"]
    /\ res.r.status = "ok"
    /\ DOMAIN res.r.views[1].data = {Tup(<<w.data.fr.rows[1].val["a"]>>)}
    /\ res.r.views[1].data[Tup(<<w.data.fr.rows[1].val["a"]>>)]
         = w.data.fr.rows[1].val["v"] + w.data.fr.rows[2].val["v"]

\* A row satisfies one criterion: equality for a scalar, strictly between the
\* bounds for a range.
C5_Satisfies(r, it) ==
    IF it[2].kind = "slice"
    THEN r.val[it[1]] > it[2].start /\ r.val[it[1]] < it[2].stop
    ELSE r.val[it[1]] = it[2].v

\* C5: select returns a new wrapper over exactly the rows that satisfy every
\* criterion, in frame order, whatever the order of the criteria; without
\* criteria it returns all rows.
C5_SelectConjunction ==
    (pc = "done" /\ args.op = "select")
    => /\ res.r.status = "ok"
       /\ res.r.value.wid # w.wid
       /\ res.r.value.data.fr.cols = w.data.fr.cols
       /\ res.r.value.data.fr.rows =
            SelectSeq(w.data.fr.rows,
                      LAMBDA r : \A i \in 1..Len(args.items) : C5_Satisfies(r, args.items[i]))
       /\ args.items = <<>> => res.r.value.data.fr.rows = w.data.fr.rows

\* C5 witness: a select with a range and a scalar criterion keeps one row of
\* two.
C5_Witness ==
    /\ pc = "done" /\ args.op = "select" /\ Len(args.items) = 2
    /\ args.items[1][2].kind = "slice" /\ args.items[2][2].kind = "scalar"
    /\ Len(w.data.fr.rows) = 2
    /\ Len(res.r.value.data.fr.rows) = 1

\* C6: no select, indexing, dframe, dfstack, table or heatmap call (failing
\* ones included) and no edit of a frame returned by dframe() changes the
\* wrapper or its underlying frame, whatever calls came before: every step
\* that is not the execution of an apply call leaves the wrapper as it was.
C6_WrapperFrameUnchanged == [][(pc = "call" /\ args.op = "apply") \/ w' = w]_vars

\* C6 witness: the caller has edited the frame dframe() returned, and a later
\* call has completed.
C6_Witness ==
    /\ ret # <<>> /\ ret[1].fr # w.data.fr
    /\ pc = "done" /\ res.op = "table" /\ res.r.status = "IndexError"

\* C7: indexing with the empty key returns the wrapper itself; with a key of
\* one value per dimension it returns what select returns for the values
\* paired with the dimension labels in order; with a non-empty key of any
\* other length it raises KeyError and returns nothing.
C7_GetItem ==
    (pc = "done" /\ args.op = "getitem")
    => /\ args.key = <<>> => (res.r.status = "ok" /\ res.r.value = w)
       /\ Len(args.key) = ndims =>
            /\ res.r.status = "ok"
            /\ res.r.value =
                 select(w, [i \in 1..ndims |-> <<dimension_labels[i], args.key[i]>>])
            /\ res.r.value.data.fr.rows =
                 SelectSeq(w.data.fr.rows,
                           LAMBDA r : \A i \in 1..ndims :
                                        r.val[dimension_labels[i]] = args.key[i].v)
       /\ (args.key # <<>> /\ Len(args.key) # ndims) =>
            (res.r.status = "KeyError" /\ "value" \notin DOMAIN res.r)

\* C7 witness: a key shorter than the number of dimensions was rejected.
C7_Witness ==
    /\ pc = "done" /\ args.op = "getitem"
    /\ Len(args.key) = 2 /\ Len(w.data.fr.rows) = 2
    /\ res.r.status = "KeyError"

\* C8: a render that is not rejected for illegal composition completes, warns
\* once per registered option outside the plot type's allow-list, and passes
\* the plotting routine every allowed option and nothing outside the
\* allow-list but figsize (and return_type for boxplot).
C8_RenderDropsAndContinues ==
    (plot.plot_type \in PlotTypes /\ plot.last.op = "__call__"
       /\ plot.last.status # "Exception")
    => /\ plot.last.status = "ok"
       /\ plot.last.drawn
       /\ plot.last.warnings =
            Cardinality({i \in 1..Len(plot.registry) :
                           plot.registry[i] \notin plot_options(plot.plot_type)})
       /\ Range(plot.last.passed) \subseteq
            plot_options(plot.plot_type) \cup {"figsize"}
              \cup (IF plot.plot_type = "boxplot" THEN {"return_type"} ELSE {})
       /\ Range(plot.registry) \cap plot_options(plot.plot_type)
            \subseteq Range(plot.last.passed)

\* C9: update_frame(n) redraws position n for n within 0..L-1 and position L-1
\* for every other n; for plot and boxplot the axis is cleared and retitled
\* before the plotting routine runs, for hist and scatter_matrix it is never
\* cleared.
C9_UpdateFrameClamps ==
    (plot.plot_type \in PlotTypes /\ plot.last.op = "update_frame")
    => /\ plot.last.status = "ok"
       /\ plot.last.frame = IF plot.last.n \in 0..(plot.nframes - 1)
                            THEN plot.last.n ELSE plot.nframes - 1
       /\ plot.plot_type \in {"plot", "boxplot"} =>
            SubSeq(plot.last.log, 1, 4) = <<"cla", "set_title", "_update_title", "_update_plot">>
       /\ plot.plot_type \in {"hist", "scatter_matrix"} =>
            "cla" \notin Range(plot.last.log)

\* C10: in an index-based export, every key handed to the view constructor is
\* as long as the dimension list handed with it (a bare value counting as one).
C10_KeyLengthMatchesDimensions ==
    (IsExport /\ args.reduce_fn = "None")
    => \A g \in 1..Len(res.r.views) :
         \A k \in DOMAIN res.r.views[g].data :
           KeyLen(k) = Len(res.r.views[g].dimensions)

====
